---- MODULE Spec2Model ----
(***************************************************************************)
(* Model of the attachment-resolution and concurrent-rendering pipeline of *)
(* list-zotero-collection.py and calibre/list-calibre-collection.py.       *)
(*                                                                         *)
(*   SpecDrive : one call of get_drive_url_by_filename (the cloud link     *)
(*               resolver) against a bounded Drive index.                  *)
(*   Spec      : one run of the listing pipeline (fetch, concurrent render *)
(*               pass, emit) over a bounded list of records.               *)
(***************************************************************************)
EXTENDS Integers, Sequences, FiniteSets, TLC

(* ---------------------------- bounds ----------------------------------- *)
MaxFiles == 2        \* files in the Drive index
MaxEmptyPages == 1   \* empty result pages the index may serve in one call
MaxRecords == 3      \* records in one run
MaxWorkers == 2      \* threads of the executor's pool
MaxChildren == 1     \* attachments of one record
MaxMainRecords == 1  \* records of a run followed from main's first line
MaxKids == 2         \* child objects of one item in a locator call
MaxNameLen == 4      \* characters of a stored Calibre file name
MaxItems == 3        \* objects of the Zotero library in an item fetch
MaxAsked == 2        \* max_results of a direct search_file_in_drive call
MaxBooks == 2        \* books of the Calibre library in a tag filter
MaxTagArgs == 2      \* -t arguments of a run
MaxCreators == 1     \* creators of one record given to an HTML formatter

(* ------------------------ values and helpers --------------------------- *)
None == "None"
NoToken == -1
NoErr == "NoErr"

Min(a, b) == IF a < b THEN a ELSE b

Take(s, n) == SubSeq(s, 1, Min(n, Len(s)))

Range(s) == {s[i] : i \in 1..Len(s)}

\* file names are character sequences; the quote is the character the
\* query builder has to escape
Quote == "'"
Backslash == "\\"
Names == {<<"a">>, <<"a", Quote>>}

\* a query builder that forgets the replace
EscapeNothing(s) == s

\* filename.replace("'", "\\'")
RECURSIVE Escape(_)
Escape(s) ==
    IF s = << >> THEN << >>
    ELSE (IF Head(s) = Quote THEN <<Backslash, Quote>> ELSE <<Head(s)>>)
         \o Escape(Tail(s))

\* The index reads a quoted literal of the query language: a backslash
\* takes the next character literally, a bare quote ends the literal.
\* The result is <<ok, text>>.
RECURSIVE Literal(_)
Literal(s) ==
    IF s = << >> THEN <<TRUE, << >> >>
    ELSE IF Head(s) = Backslash
         THEN IF Len(s) < 2 THEN <<FALSE, << >> >>
              ELSE LET r == Literal(Tail(Tail(s)))
                   IN <<r[1], <<s[2]>> \o r[2]>>
    ELSE IF Head(s) = Quote THEN <<FALSE, << >> >>
    ELSE LET r == Literal(Tail(s)) IN <<r[1], <<Head(s)>> \o r[2]>>

\* "name contains": t occurs in s as a contiguous run
Contains(s, t) ==
    \E i \in 1..(Len(s) + 1) :
        /\ i + Len(t) - 1 <= Len(s)
        /\ SubSeq(s, i, i + Len(t) - 1) = t

(* --------------------------- Drive index ------------------------------- *)
\* One folder named "F" exists; a lookup of any other name finds nothing.
DriveFolders == <<[id |-> "f1", name |-> "F"]>>

Visibility == {"owned", "sharedListed", "sharedOnly"}

\* owned        : returned by a plain name query only
\* sharedListed : shared with the caller and returned by both queries
\* sharedOnly   : shared with the caller, returned by sharedWithMe only
FileKinds ==
    { k \in [name : Names, trashed : BOOLEAN, vis : Visibility,
             parent : {"root", "f1"}, hasLink : BOOLEAN] :
        k.trashed => (k.vis = "owned" /\ k.parent = "root" /\ k.hasLink) }

Indexes == UNION { [1..n -> FileKinds] : n \in 0..MaxFiles }

FolderNames == {None, "F", "G"}

VARIABLES
    index,        \* the Drive index: file id -> file
    google_creds, \* argument: credentials present
    filename,     \* argument
    exact_match,  \* argument
    folder_name,  \* argument
    return_all,   \* argument
    dpc,          \* position in get_drive_url_by_filename
    max_results,  \* search_file_in_drive parameter
    query,        \* search_file_in_drive parameter / local
    folder_id,    \* search_file_in_drive local
    results,      \* search_file_in_drive local: file ids
    page_token,   \* search_file_in_drive local
    empties,      \* empty pages served so far
    reqlog,       \* requests issued to the index, in order
    found,        \* list returned by search_file_in_drive
    err,          \* class of the error raised inside the call, if any
    retval,       \* value returned by get_drive_url_by_filename
    outcome       \* "pending", "returned" or "raised"

dvars == <<index, google_creds, filename, exact_match, folder_name,
           return_all, dpc, max_results, query, folder_id, results,
           page_token, empties, reqlog, found, err, retval, outcome>>

VARIABLES
    backend,         \* "zotero" or "calibre": which script runs
    records,         \* what the bibliographic source holds, in fetch order
    attq,            \* per record: outcome of the query for its attachments
    rpc,             \* position of the main thread
    items,           \* the fetched record list handed to the render pass
    submitted,       \* number of tasks submitted to the executor
    tasks,           \* per position: state and result of the future
    completed,       \* the as_completed loop's counter
    formatted_items, \* (index, fragment) pairs in completion order
    document,        \* the list returned by the render pass
    written,         \* the output destination has been written
    exit_code        \* process exit status, -1 while running

rvars == <<backend, records, attq, rpc, items, submitted, tasks, completed,
           formatted_items, document, written, exit_code>>

VARIABLES
    verbose,              \* -v
    service_account_file, \* -s was given
    output_format,        \* -o: "text", "html" or "pdf"
    output_file,          \* -f, or None
    drive_creds,          \* main's google_creds is set
    auth,                 \* "none", "ok" or "failed": credential loading
    access,               \* "untested", "ok" or "failed": the Drive access test
    source,               \* "unknown", "ok" or "unreachable"
    printed,              \* the lines printed so far, as (stream, kind)
    out_files,            \* the files opened for output
    lookups,              \* calls of the cloud resolver made by the locator
    resps,                \* per record: the resolver's answers by file name
    pdf_status            \* "none", "ok", "failed" or "nolib"

margs == <<verbose, service_account_file, output_format, output_file>>

mvars == <<verbose, service_account_file, output_format, output_file,
           drive_creds, auth, access, source, printed, out_files, lookups,
           resps, pdf_status>>

VARIABLES
    call,            \* arguments and collaborator responses of a single call
    ret              \* what the call returned

xvars == <<call, ret>>

vars == <<dvars, rvars, mvars, xvars>>

NoQuery == [op |-> "=", lit |-> << >>, parent |-> None]

(* ------------------------ index-side behaviour ------------------------- *)
\* does file f satisfy "name <op> '<lit>' and trashed = false [and '<id>' in parents]"
Matches(f, q) ==
    LET l == Literal(q.lit) IN
    /\ l[1]
    /\ IF q.op = "=" THEN f.name = l[2] ELSE Contains(f.name, l[2])
    /\ ~f.trashed
    /\ q.parent # None => f.parent = q.parent

Ids(idx) == [i \in 1..Len(idx) |-> i]

IsPrimary(i) == index[i].vis \in {"owned", "sharedListed"} /\ Matches(index[i], query)
IsShared(i) == index[i].vis \in {"sharedListed", "sharedOnly"} /\ Matches(index[i], query)

\* ids answering the name query, in listing order
PrimaryMatches == SelectSeq(Ids(index), IsPrimary)
\* ids answering "<query> and sharedWithMe=true"
SharedMatches == SelectSeq(Ids(index), IsShared)

\* 'webViewLink' in item / item.get('webViewLink')
HasLink(i) == index[i].hasLink
\* values returned to the caller: None, one link, or a list of links
RNone == [kind |-> "None"]
Url(i) == [kind |-> "url", id |-> i]
UrlList(l) == [kind |-> "list", urls |-> l]
Link(i) == IF HasLink(i) THEN Url(i) ELSE RNone

(* --------------------- get_drive_url_by_filename ----------------------- *)
\* a handler narrowed to the API error class
CatchesHttpOnly(kind) == kind = "HttpError"

\* except Exception as e: every error class raised below is an Exception
Catches(kind) == kind \in {"HttpError", "BuildError"}

\* an error raised inside the try block at position dpc
Raise(kind) ==
    /\ err' = kind
    /\ retval' = RNone
    /\ outcome' = IF Catches(kind) THEN "returned" ELSE "raised"

\* a return statement without the 'webViewLink' in item filter
ShapeUnfiltered(res, all) ==
    IF res = << >> THEN RNone
    ELSE IF all THEN UrlList([j \in 1..Len(res) |-> Link(res[j])])
    ELSE Link(res[1])

\* lines 256-261: shape of the return value
Shape(res, all) ==
    IF res = << >> THEN RNone
    ELSE IF all THEN UrlList([j \in 1..Len(SelectSeq(res, HasLink)) |->
                                  Link(SelectSeq(res, HasLink)[j])])
    ELSE Link(res[1])

\* lines 227-250: guard, client construction, query construction
ResolveStart ==
    /\ dpc = "start"
    /\ UNCHANGED <<rvars, mvars, xvars>>
    /\ UNCHANGED <<index, google_creds, filename, exact_match, folder_name,
                   return_all, folder_id, results, page_token, empties,
                   reqlog, found>>
    /\ IF ~google_creds
       THEN /\ retval' = RNone
            /\ outcome' = "returned"
            /\ dpc' = "done"
            /\ UNCHANGED <<max_results, query, err>>
       ELSE \E ok \in BOOLEAN :
            IF ~ok
            THEN /\ Raise("BuildError")
                 /\ dpc' = "done"
                 /\ UNCHANGED <<max_results, query>>
            ELSE /\ query' = [op |-> IF exact_match THEN "=" ELSE "contains",
                              lit |-> Escape(filename),
                              parent |-> None]
                 /\ max_results' = IF return_all THEN 10 ELSE 1
                 /\ dpc' = IF folder_name # None THEN "folder" ELSE "page"
                 /\ UNCHANGED <<retval, outcome, err>>

\* lines 158-171: folder lookup, first match wins
FolderLookup ==
    /\ dpc = "folder"
    /\ UNCHANGED <<rvars, mvars, xvars>>
    /\ reqlog' = Append(reqlog, "folder")
    /\ UNCHANGED <<index, google_creds, filename, exact_match, folder_name,
                   return_all, max_results, results, page_token, empties,
                   found>>
    /\ \E ok \in BOOLEAN :
       IF ~ok
       THEN /\ Raise("HttpError")
            /\ dpc' = "done"
            /\ UNCHANGED <<query, folder_id>>
       ELSE LET IsNamed(d) == d.name = folder_name
                folders == Take(SelectSeq(DriveFolders, IsNamed), 1)
            IN /\ IF folders # << >>
                  THEN /\ folder_id' = folders[1].id
                       /\ query' = [query EXCEPT !.parent = folders[1].id]
                  ELSE UNCHANGED <<query, folder_id>>
               /\ dpc' = "page"
               /\ UNCHANGED <<retval, outcome, err>>

\* the line-187 test without "and not folder_id"
SharedCondAnyScope(res) == Len(res) < max_results

\* line 187
SharedCond(res) == Len(res) < max_results /\ folder_id = None

\* lines 205-210 and 252-261: advance the token, leave the loop or go round,
\* truncate, shape the return value
\* a loop that goes on until the pages run out
StopsOnTokenOnly(res, next) == next = NoToken

\* line 205: if page_token is None or len(results) >= max_results: break
Stops(res, next) == next = NoToken \/ Len(res) >= max_results

LoopEnd(res, next) ==
    /\ UNCHANGED err
    /\ results' = res
    /\ page_token' = next
    /\ IF Stops(res, next)
       THEN /\ found' = Take(res, max_results)
            /\ retval' = Shape(Take(res, max_results), return_all)
            /\ outcome' = "returned"
            /\ dpc' = "done"
       ELSE /\ dpc' = "page"
            /\ UNCHANGED <<found, retval, outcome>>

\* lines 175-187: one page of the name query
PageRequest ==
    /\ dpc = "page"
    /\ UNCHANGED <<rvars, mvars, xvars>>
    /\ reqlog' = Append(reqlog, "page")
    /\ UNCHANGED <<index, google_creds, filename, exact_match, folder_name,
                   return_all, max_results, query, folder_id>>
    /\ \E ok \in BOOLEAN :
       IF ~ok
       THEN /\ Raise("HttpError")
            /\ dpc' = "done"
            /\ UNCHANGED <<results, page_token, empties, found>>
       ELSE LET cur == IF page_token = NoToken THEN 0 ELSE page_token
                remaining == Len(PrimaryMatches) - cur
                least == IF remaining = 0 \/ empties < MaxEmptyPages
                         THEN 0 ELSE 1
            IN \E k \in least..Min(max_results, remaining) :
               LET res == results \o SubSeq(PrimaryMatches, cur + 1, cur + k)
                   next == IF cur + k < Len(PrimaryMatches)
                           THEN cur + k ELSE NoToken
               IN /\ empties' = IF k = 0 /\ remaining > 0
                                THEN empties + 1 ELSE empties
                  /\ IF SharedCond(res)
                     THEN /\ results' = res
                          /\ page_token' = next
                          /\ dpc' = "shared"
                          /\ UNCHANGED <<found, err, retval, outcome>>
                     ELSE LoopEnd(res, next)

\* lines 188-208: the shared-with-me query and the merge
RECURSIVE Merge(_, _)
Merge(res, shared) ==
    IF shared = << >> THEN res
    ELSE IF Head(shared) \in Range(res)
         THEN Merge(res, Tail(shared))
         ELSE Merge(Append(res, Head(shared)), Tail(shared))

SharedRequest ==
    /\ dpc = "shared"
    /\ UNCHANGED <<rvars, mvars, xvars>>
    /\ reqlog' = Append(reqlog, "shared")
    /\ UNCHANGED <<index, google_creds, filename, exact_match, folder_name,
                   return_all, max_results, query, folder_id, empties>>
    /\ \E ok \in BOOLEAN :
       IF ~ok
       THEN /\ Raise("HttpError")
            /\ dpc' = "done"
            /\ UNCHANGED <<results, page_token, found>>
       ELSE LET shared_files == Take(SharedMatches, max_results - Len(results))
            IN LoopEnd(Merge(results, shared_files), page_token)

(* ===================== the Zotero attachment locator =================== *)
NoField == "NoField"
NoCall == [fn |-> "none"]
NoRet == [fn |-> "none"]

CallIdle == call = NoCall /\ ret = NoRet

\* lines 349-364: the content types the locator keeps
AllowList ==
    {"application/pdf", "image/vnd.djvu", "video/mp4",
     "application/vnd.ms-powerpoint",
     "application/vnd.openxmlformats-officedocument.presentationml.presentation",
     "application/epub+zip", "application/vnd.amazon.ebook",
     "application/x-mobi8-ebook", "application/x-mobipocket-ebook",
     "application/vnd.comicbook+zip", "application/x-cbr",
     "application/x-fictionbook+xml", "text/plain"}

FileNames == {"f1", "f2"}

\* the child objects zot.children can return
ChildKinds ==
    [itemType : {"attachment", "note"},
     contentType : {"application/pdf", "text/plain", "text/html", NoField},
     hasKey : BOOLEAN,
     filename : FileNames \cup {NoField}]

ChildLists == UNION { [1..n -> ChildKinds] : n \in 0..MaxKids }

\* what get_drive_url_by_filename answers for a file name
Responses == [FileNames -> {"hit", "miss", "error"}]

\* the webViewLink found for a file name
DriveUrl(f) == IF f = "f1" THEN "u1" ELSE "u2"

\* a test that forgets the allow-list
KeepChildAnyType(c) ==
    /\ c.itemType = "attachment" /\ c.contentType # NoField
    /\ c.hasKey /\ c.filename # NoField

\* lines 347-366: is the child a supported attachment with key and filename
KeepChild(c) ==
    /\ c.itemType = "attachment" /\ c.contentType # NoField
    /\ c.contentType \in AllowList
    /\ c.hasKey /\ c.filename # NoField

\* lines 372-393 (Calibre 315-333): the info of one attachment; the link is
\* set only when credentials are given and the resolver returned one
Enrich(local_path, file, creds, resp) ==
    [local_path |-> local_path,
     drive_url |-> IF creds /\ resp[file] = "hit" THEN DriveUrl(file) ELSE None]

\* an append that is skipped when the lookup brought no link
EmittedIfLinked(info, creds) ==
    IF creds /\ info.drive_url = None THEN << >> ELSE <<info>>

\* line 395 (Calibre 334): attachment_info.append(info)
Emitted(info, creds) == <<info>>

\* lines 344-397: the loop over the children; keys are child positions
RECURSIVE AttachmentLoop(_, _, _, _)
AttachmentLoop(children, k, creds, resp) ==
    IF k > Len(children) THEN << >>
    ELSE (IF KeepChild(children[k])
          THEN Emitted(Enrich(<<"storage", k, children[k].filename>>,
                              children[k].filename, creds, resp), creds)
          ELSE << >>)
         \o AttachmentLoop(children, k + 1, creds, resp)

\* get_attachment_paths of the Zotero script
GetAttachmentPaths(children, queryOk, creds, resp) ==
    IF ~queryOk THEN << >> ELSE AttachmentLoop(children, 1, creds, resp)


(* ===================== the Calibre attachment locator ================== *)
\* paths are sequences of components, a component is a character sequence
Dot == "."
StoredNames == UNION { [1..n -> {"b", Dot, "e", "E"}] : n \in 0..MaxNameLen }
Formats == { <<"E">>, <<"e">> }

\* the directory the emitted path is anchored at, and two library roots:
\* one below the anchor directory and one elsewhere
Anchor == <<"c", "l">>
Libraries == { << <<"h">>, <<"C", "L">> >>, << <<"h">>, <<"l">> >> }
BookPath == << <<"t">> >>

\* str.lower() on the characters in use
LowerChar(c) ==
    IF c = "E" THEN "e" ELSE IF c = "C" THEN "c" ELSE IF c = "L" THEN "l" ELSE c

Lower(s) == [i \in 1..Len(s) |-> LowerChar(s[i])]

EndsWith(s, t) ==
    Len(t) <= Len(s) /\ SubSeq(s, Len(s) - Len(t) + 1, Len(s)) = t

\* lines 301-304: the stored name gets the extension when it has no dot
FileName(name, ext) ==
    IF Contains(name, <<Dot>>) THEN name ELSE name \o <<Dot>> \o ext

\* lines 305-307: book_folder / filename, resolved: a "." component is
\* dropped and ".." steps to the parent
Resolve(folder, fname) ==
    IF fname = <<Dot>> THEN folder
    ELSE IF fname = <<Dot, Dot>> THEN SubSeq(folder, 1, Len(folder) - 1)
    ELSE folder \o <<fname>>

\* lines 309-311: cut everything before the anchor directory, if present
Truncate(path) ==
    LET hits == {i \in 1..Len(path) : Lower(path[i]) = Anchor}
    IN IF hits = {} THEN path
       ELSE SubSeq(path, CHOOSE i \in hits : \A j \in hits : i <= j, Len(path))

\* a test that never finds the suffix
NeedsSuffixAlways(path, ext) == TRUE

\* line 313: not local_path_str.lower().endswith(f".{ext}")
NeedsSuffix(path, ext) ==
    ~EndsWith(Lower(path[Len(path)]), <<Dot>> \o ext)

\* line 314: the suffix goes on the end of the path string
AppendSuffix(path, ext) ==
    [path EXCEPT ![Len(path)] = @ \o <<Dot>> \o ext]

\* lines 298-315: filename and local path of one format row
CalibrePath(library, name, format) ==
    LET ext == Lower(format)
        fname == FileName(name, ext)
        path == Truncate(Resolve(library \o BookPath, fname))
    IN [filename |-> fname,
        local_path |-> IF NeedsSuffix(path, ext)
                       THEN AppendSuffix(path, ext) ELSE path]

(* ========================= the Zotero item fetch ======================= *)
ItemTypes == {"book", "journalArticle", "note", "attachment"}

\* an object of the library: its type and whether it is in collection "c1"
LibraryObjects == [itemType : ItemTypes, inCollection : BOOLEAN]

Libraries0 == UNION { [1..n -> LibraryObjects] : n \in 0..MaxItems }

\* zot.everything(zot.collection_items(collection))
CollectionItems(lib) ==
    LET In(o) == o.inCollection IN SelectSeq(lib, In)

\* zot.everything(zot.items(itemType=item_type))
ItemsOfType(lib, t) ==
    LET Is(o) == o.itemType = t IN SelectSeq(lib, Is)

\* lines 295-307: with a collection the collection's items are fetched and
\* item_type is not looked at; without one the type filter is applied
Fetched(lib, collection, item_type) ==
    IF collection # None THEN CollectionItems(lib)
    ELSE IF item_type # None THEN ItemsOfType(lib, item_type)
    ELSE lib

\* lines 291-318: get_items; notes and attachments are filtered out
GetItems(lib, collection, item_type) ==
    LET Listed(o) == o.itemType \notin {"note", "attachment"}
    IN SelectSeq(Fetched(lib, collection, item_type), Listed)


(* ------------------------ Calibre tag filter --------------------------- *)
\* main of the Calibre script: the books of the fetch are filtered by the
\* -t/--tag arguments.  Names are character sequences.
Space == " "

\* the -t arguments of a run, as typed
TagArgs == { << >>, <<Space>>, <<"e">>, <<Space, "E", Space>>, <<"e", "b">> }

\* tag names as stored in the library
TagNames == { <<"E">>, <<"b">>, <<"E", "b", "e">>, <<"b", "b">> }

\* the tag rows of one book
TagRows == { << >> } \cup { <<t>> : t \in TagNames }
               \cup { << <<"b", "b">>, <<"E">> >> }

BookLists ==
    UNION { [1..n -> [title : {"t1", "t2"}, tags : TagRows]] :
               n \in 0..MaxBooks }

TagArgLists == UNION { [1..n -> TagArgs] : n \in 0..MaxTagArgs }

RECURSIVE StripLeft(_)
StripLeft(s) ==
    IF s # << >> /\ Head(s) = Space THEN StripLeft(Tail(s)) ELSE s

RECURSIVE StripRight(_)
StripRight(s) ==
    IF s # << >> /\ s[Len(s)] = Space
    THEN StripRight(SubSeq(s, 1, Len(s) - 1)) ELSE s

\* str.strip()
Strip(s) == StripRight(StripLeft(s))

\* [cat.strip().lower() for cat in args.tag if cat.strip()]
Categories(args) ==
    LET NonBlank(cat) == Strip(cat) # << >>
        kept == SelectSeq(args, NonBlank)
    IN [j \in 1..Len(kept) |-> Lower(Strip(kept[j]))]

\* a test that only looks for the category inside the tag
TagMatchOneWay(cat, tag) == Contains(tag, cat)

\* "if cat in tag or tag in cat"
TagMatch(cat, tag) == Contains(tag, cat) \/ Contains(cat, tag)

\* the nested loops over categories and the book's lowercased tags
BookMatches(categories, rows) ==
    LET book_tags == [j \in 1..Len(rows) |-> Lower(rows[j])]
    IN \E c \in 1..Len(categories), t \in 1..Len(book_tags) :
           TagMatch(categories[c], book_tags[t])

\* "if args.tag:" builds the categories, "if categories:" filters
FilterBooks(books, args) ==
    LET categories == IF args # << >> THEN Categories(args) ELSE << >>
        Keep(book) == BookMatches(categories, book.tags)
    IN IF categories # << >> THEN SelectSeq(books, Keep) ELSE books


(* -------------------------- HTML formatters ---------------------------- *)
\* format_item_html and format_book_html, as the text each one puts into
\* the fragment for every field of the record.  Texts are character
\* sequences; an empty sequence is a field that is absent or empty.
Amp == "&"
Lt == "<"

Texts == { <<"a">>, <<Amp>>, <<Lt, "a">> }
ShortTexts == { <<"a">>, <<Amp>> }

\* html.escape on one character
EscapeChar(c) ==
    IF c = Amp THEN <<Amp, "a", "m", "p", ";">>
    ELSE IF c = Lt THEN <<Amp, "l", "t", ";">>
    ELSE IF c = ">" THEN <<Amp, "g", "t", ";">>
    ELSE IF c = "\"" THEN <<Amp, "q", "u", "o", "t", ";">>
    ELSE IF c = Quote THEN <<Amp, "#", "x", "2", "7", ";">>
    ELSE <<c>>

RECURSIVE HtmlEscape(_)
HtmlEscape(s) ==
    IF s = << >> THEN << >>
    ELSE EscapeChar(Head(s)) \o HtmlEscape(Tail(s))

\* sep.join(parts)
RECURSIVE Join(_, _)
Join(parts, sep) ==
    IF parts = << >> THEN << >>
    ELSE IF Len(parts) = 1 THEN parts[1]
    ELSE parts[1] \o sep \o Join(Tail(parts), sep)

\* a creator of a Zotero item: lastName and firstName, or a single name
Creators ==
    [lastName : ShortTexts, firstName : ShortTexts] \cup [name : Texts]

CreatorLists == UNION { [1..n -> Creators] : n \in 0..MaxCreators }

AuthorLists == UNION { [1..n -> Texts] : n \in 0..MaxCreators }

AttachmentInfos ==
    [local_path : ShortTexts, drive_url : {<< >>} \cup ShortTexts]

AttachmentLists == { << >> } \cup { <<a>> : a \in AttachmentInfos }

\* the loop over item['data']['creators']: each name is escaped as it is
\* put into the list
AuthorEntry(c) ==
    IF "lastName" \in DOMAIN c
    THEN HtmlEscape(c.lastName) \o <<",", " ">> \o HtmlEscape(c.firstName)
    ELSE HtmlEscape(c.name)

\* one <li> of the attachment list
AttachmentHtml(a) ==
    [local_path |-> HtmlEscape(a.local_path),
     drive_url |-> IF a.drive_url # << >> THEN HtmlEscape(a.drive_url)
                   ELSE << >>]

\* format_item_html; the joined author entries are passed to html.escape
FormatItemHtml(item, attachments) ==
    [itemType |-> HtmlEscape(item.itemType),
     title |-> HtmlEscape(item.title),
     authors |-> HtmlEscape(Join([j \in 1..Len(item.creators) |->
                                     AuthorEntry(item.creators[j])],
                                 <<";", " ">>)),
     date |-> HtmlEscape(item.date),
     publisher |-> IF item.itemType = <<"b">> THEN HtmlEscape(item.publisher)
                   ELSE << >>,
     attachments |-> [j \in 1..Len(attachments) |->
                         AttachmentHtml(attachments[j])]]

\* format_book_html; the raw author names are joined, then escaped
FormatBookHtml(book, attachments) ==
    [title |-> HtmlEscape(book.title),
     authors |-> HtmlEscape(Join(book.authors, <<";", " ">>)),
     date |-> HtmlEscape(book.pubdate),
     publisher |-> HtmlEscape(book.publisher),
     attachments |-> [j \in 1..Len(attachments) |->
                         AttachmentHtml(attachments[j])]]

(* ============================ the run ================================== *)
NoFrag == [kind |-> "none"]
ProgressEvery == 10

RecordKinds == [malformed : BOOLEAN, children : 0..MaxChildren]

RecordLists == UNION { [1..n -> RecordKinds] : n \in 0..MaxRecords }

MainRecordLists == UNION { [1..n -> RecordKinds] : n \in 0..MaxMainRecords }

\* print(...): the line goes out whatever the verbosity
PrintTo(out, stream, kind) == out \cup {[stream |-> stream, kind |-> kind]}

\* print_progress(message, verbose, file=...): the line goes out only in
\* verbose mode
PrintProgress(out, kind, v, stream) ==
    IF v THEN PrintTo(out, stream, kind) ELSE out

\* the file name of the record's j-th attachment
FileOf(j) == IF j = 1 THEN "f1" ELSE "f2"

Asked(rec) == {FileOf(j) : j \in 1..rec.children}

NoAnswers == [f \in FileNames |-> "miss"]

\* a locator that asks the resolver only in verbose mode
LookupDoneIfVerbose(gc, v) == gc /\ v

\* "if google_creds:" in get_attachment_paths; the verbosity is passed in
\* but decides nothing
LookupDone(gc, v) == gc

\* the attachment list of a record whose attachment rows were read
Attachments(rec, gc, resp, v) ==
    [j \in 1..rec.children |->
        Enrich(j, FileOf(j), LookupDone(gc, v), resp)]

\* format_item_html / format_book_html raise on a malformed record
Raises(rec) == rec.malformed

\* an error label that shows the zero-based index
ErrorFragmentZeroBased(idx, where) ==
    [kind |-> "error", num |-> idx, by |-> where]

\* the inline error block: "Error formatting item {idx+1}: ..."
ErrorFragment(idx, where) == [kind |-> "error", num |-> idx + 1, by |-> where]

\* the rendered record under its "#{idx+1}" header
ItemFragment(idx, rec, atts) ==
    [kind |-> "item", num |-> idx + 1, body |-> rec, atts |-> atts]

\* a handler that returns the bare header instead of an error block
FormatSingleItemUnmarked(idx, rec, atts) ==
    IF Raises(rec)
    THEN [raised |-> FALSE, value |-> ItemFragment(idx, rec, << >>)]
    ELSE [raised |-> FALSE, value |-> ItemFragment(idx, rec, atts)]

\* format_single_item / format_single_book: the task body; what the future
\* holds when the task is over
FormatSingleItem(idx, rec, atts) ==
    IF Raises(rec)
    THEN [raised |-> FALSE, value |-> ErrorFragment(idx, "formatting")]
    ELSE [raised |-> FALSE, value |-> ItemFragment(idx, rec, atts)]

\* the try/except around future.result() in the as_completed loop
Collected(idx, fut) ==
    IF fut.raised THEN <<idx, ErrorFragment(idx, "processing")>>
    ELSE <<idx, fut.value>>

\* a render pass that forgets to sort
SortNot(pairs) == pairs

\* formatted_items.sort(key=lambda x: x[0])
RECURSIVE SortByIdx(_)
SortByIdx(pairs) ==
    IF pairs = << >> THEN << >>
    ELSE LET least == CHOOSE i \in 1..Len(pairs) :
                 /\ \A j \in 1..Len(pairs) : pairs[i][1] <= pairs[j][1]
                 /\ \A j \in 1..(i - 1) : pairs[j][1] # pairs[i][1]
             rest == [j \in 1..(Len(pairs) - 1) |->
                          IF j < least THEN pairs[j] ELSE pairs[j + 1]]
         IN <<pairs[least]>> \o SortByIdx(rest)

\* [html_content for _, html_content in formatted_items]
Contents(pairs) == [j \in 1..Len(pairs) |-> pairs[j][2]]

\* a loop that stops waiting at the first completed future
LoopOverFirst(c, n) == c >= 1

\* for future in as_completed(future_to_idx): the loop is over when every
\* submitted future has been yielded
LoopOver(c, n) == c = n

FreshTasks(n) == [p \in 1..n |-> [st |-> "unsubmitted", fut |-> NoFrag]]

\* a handler that ends the run as if nothing had happened
AbortAsEmpty ==
    /\ rpc' = "exit"
    /\ exit_code' = 0
    /\ printed' = PrintTo(printed, "stderr", "fatal")
    /\ UNCHANGED <<items, submitted, tasks, completed, formatted_items,
                   document, written, out_files, lookups, resps, pdf_status>>

\* main's handler: print the error to the error stream, sys.exit(1)
Abort ==
    /\ rpc' = "exit"
    /\ exit_code' = 1
    /\ printed' = PrintTo(printed, "stderr", "fatal")
    /\ UNCHANGED <<items, submitted, tasks, completed, formatted_items,
                   document, written, out_files, lookups, resps, pdf_status>>

\* get_items: the item fetch of the Zotero script
FetchZotero ==
    /\ rpc = "fetch" /\ backend = "zotero"
    /\ UNCHANGED <<dvars, xvars, margs, drive_creds, auth, access, backend,
                   records, attq>>
    /\ \E ok \in BOOLEAN :
       IF ~ok
       THEN /\ source' = "unreachable"
            /\ Abort
       ELSE /\ source' = "ok"
            /\ items' = records
            /\ tasks' = FreshTasks(Len(records))
            /\ rpc' = "display"
            /\ printed' = PrintProgress(printed, "progress", verbose, "stdout")
            /\ UNCHANGED <<submitted, completed, formatted_items, document,
                           written, exit_code, out_files, lookups, resps,
                           pdf_status>>

\* list_calibre_books: the book query, then per book the author query and
\* the format query; failed = 0 when every query succeeds, otherwise the
\* position of the book whose format query fails
FetchCalibre ==
    /\ rpc = "fetch" /\ backend = "calibre"
    /\ UNCHANGED <<dvars, xvars, margs, drive_creds, auth, access, backend,
                   records>>
    /\ \E failed \in 0..Len(records) :
       IF failed # 0
       THEN /\ attq' = [p \in 1..Len(records) |->
                           IF p < failed THEN "ok"
                           ELSE IF p = failed THEN "failed" ELSE "none"]
            /\ source' = "unreachable"
            /\ Abort
       ELSE /\ attq' = [p \in 1..Len(records) |-> "ok"]
            /\ source' = "ok"
            /\ items' = records
            /\ tasks' = FreshTasks(Len(records))
            /\ rpc' = "display"
            /\ printed' = PrintProgress(printed, "progress", verbose, "stdout")
            /\ UNCHANGED <<submitted, completed, formatted_items, document,
                           written, exit_code, out_files, lookups, resps,
                           pdf_status>>

\* display_items / display_books, up to the render pass
Display ==
    /\ rpc = "display"
    /\ UNCHANGED <<dvars, xvars, margs, drive_creds, auth, access, source,
                   backend, records, attq, items, submitted, tasks,
                   completed, formatted_items, document, written, out_files,
                   lookups, resps, pdf_status>>
    /\ IF items = << >>
       THEN /\ printed' = PrintTo(printed, "stdout", "no_items")
            /\ rpc' = "exit"
            /\ exit_code' = 0
       ELSE /\ printed' = PrintProgress(printed, "progress", verbose, "stdout")
            /\ rpc' = "submit"
            /\ UNCHANGED exit_code

\* a submit loop that stops one record short
SubmitAllButLast ==
    /\ rpc = "submit"
    /\ submitted < Len(items)
    /\ tasks' = [tasks EXCEPT ![submitted + 1].st = "pending"]
    /\ submitted' = submitted + 1
    /\ rpc' = IF submitted + 1 >= Len(items) - 1 THEN "collect" ELSE "submit"
    /\ UNCHANGED <<dvars, xvars, mvars, backend, records, attq, items,
                   completed, formatted_items, document, written, exit_code>>

\* executor.submit(format_single_item, i, item, ...), in record order
Submit ==
    /\ rpc = "submit"
    /\ submitted < Len(items)
    /\ tasks' = [tasks EXCEPT ![submitted + 1].st = "pending"]
    /\ submitted' = submitted + 1
    /\ rpc' = IF submitted + 1 = Len(items) THEN "collect" ELSE "submit"
    /\ UNCHANGED <<dvars, xvars, mvars, backend, records, attq, items,
                   completed, formatted_items, document, written, exit_code>>

Running == {p \in DOMAIN tasks : tasks[p].st = "running"}
Pending == {p \in DOMAIN tasks : tasks[p].st = "pending"}

\* a free worker thread takes the oldest queued task
TaskStart ==
    /\ Pending # {}
    /\ Cardinality(Running) < MaxWorkers
    /\ LET p == CHOOSE q \in Pending : \A r \in Pending : q <= r
       IN tasks' = [tasks EXCEPT ![p].st = "running"]
    /\ UNCHANGED <<dvars, xvars, mvars, backend, records, attq, rpc, items,
                   submitted, completed, formatted_items, document, written,
                   exit_code>>

\* get_attachment_paths: what the locator returns for the record
\*   zotero : zot.children(item['key']) inside try/except
\*   calibre: built from book['formats'], no query of its own
Locate(rec, queryOk, gc, resp, v) ==
    IF backend = "zotero" /\ ~queryOk THEN << >>
    ELSE Attachments(rec, gc, resp, v)

\* what the locator and the resolver print while locating: the failed
\* child query and a failed lookup go to the error stream as they are,
\* the rest is progress
LocateLog(out, rec, queryOk, gc, resp, v) ==
    IF backend = "zotero" /\ ~queryOk
    THEN PrintTo(out, "stderr", "children_error")
    ELSE IF ~LookupDone(gc, v) \/ rec.children = 0 THEN out
    ELSE LET searched == PrintProgress(out, "progress", v, "stdout")
         IN IF \E f \in Asked(rec) : resp[f] = "error"
            THEN PrintTo(searched, "stderr", "lookup_error")
            ELSE searched

\* a worker that stores its fragment in the pair list itself
HandedBackByAppending(pairs, idx, fut) == Append(pairs, <<idx, fut>>)

\* what a worker does to the pair list: nothing, format_single_item builds
\* its fragment from locals and hands it back as the future's result
HandedBack(pairs, idx, fut) == pairs

\* a worker runs format_single_item(idx, item, ...) to its return
TaskFinish ==
    \E p \in Running :
        LET rec == items[p]
            asks == backend = "zotero" /\ ~Raises(rec)
        IN \E queryOk \in (IF asks THEN BOOLEAN ELSE {TRUE}) :
           LET looks == /\ ~Raises(rec) /\ queryOk
                        /\ LookupDone(drive_creds, verbose)
               asked == IF looks THEN Asked(rec) ELSE {}
           IN \E resp \in {r \in Responses :
                              \A f \in FileNames \ asked : r[f] = "miss"} :
              /\ tasks' = [tasks EXCEPT ![p] =
                     [st |-> "done",
                      fut |-> FormatSingleItem(p - 1, rec,
                                  Locate(rec, queryOk, drive_creds, resp,
                                         verbose))]]
              /\ attq' = IF asks
                         THEN [attq EXCEPT
                                  ![p] = IF queryOk THEN "ok" ELSE "failed"]
                         ELSE attq
              /\ formatted_items' =
                     HandedBack(formatted_items, p - 1,
                                FormatSingleItem(p - 1, rec,
                                    Locate(rec, queryOk, drive_creds, resp,
                                           verbose)))
              /\ resps' = [resps EXCEPT ![p] = resp]
              /\ lookups' = lookups + (IF looks THEN rec.children ELSE 0)
              /\ printed' =
                     IF Raises(rec)
                     THEN PrintProgress(printed, "progress_err", verbose,
                                        "stderr")
                     ELSE LocateLog(printed, rec, queryOk, drive_creds, resp,
                                    verbose)
              /\ UNCHANGED <<dvars, xvars, margs, drive_creds, auth, access,
                             source, out_files, pdf_status, backend, records,
                             rpc, items, submitted, completed, document,
                             written, exit_code>>

\* one round of the as_completed loop; after the last round the executor is
\* shut down, the pairs are sorted and the fragment list is returned
Collect ==
    /\ rpc = "collect"
    /\ \E p \in DOMAIN tasks :
        /\ tasks[p].st = "done"
        /\ LET pairs == Append(formatted_items, Collected(p - 1, tasks[p].fut))
           IN /\ formatted_items' = pairs
              /\ completed' = completed + 1
              /\ tasks' = [tasks EXCEPT ![p].st = "collected"]
              /\ printed' =
                     IF \/ (completed + 1) % ProgressEvery = 0
                        \/ completed + 1 = Len(items)
                     THEN PrintProgress(printed, "progress", verbose, "stdout")
                     ELSE printed
              /\ IF LoopOver(completed + 1, Len(items))
                 THEN /\ document' = Contents(SortByIdx(pairs))
                      /\ rpc' = "emit"
                 ELSE UNCHANGED <<document, rpc>>
    /\ UNCHANGED <<dvars, xvars, margs, drive_creds, auth, access, source,
                   out_files, lookups, resps, pdf_status, backend, records,
                   attq, items, submitted, written, exit_code>>

\* a display that opens a file whatever the destination
OpensFileAlways(dest) == TRUE

\* "if output_file:" in the text and html branches
OpensFile(dest) == dest # None

\* display_items, text and html, after the render pass: write the document
\* to the file or print it, return to main
Emit ==
    /\ rpc = "emit" /\ output_format # "pdf"
    /\ written' = TRUE
    /\ IF OpensFile(output_file)
       THEN /\ out_files' = out_files \cup {output_file}
            /\ printed' = PrintTo(PrintProgress(printed, "progress", verbose,
                                                "stdout"),
                                  "stdout", "saved")
       ELSE /\ out_files' = out_files
            /\ printed' = PrintTo(PrintProgress(printed, "progress", verbose,
                                                "stdout"),
                                  "stdout", "document")
    /\ rpc' = "exit"
    /\ exit_code' = 0
    /\ UNCHANGED <<dvars, xvars, margs, drive_creds, auth, access, source,
                   lookups, resps, pdf_status, backend, records, attq, items,
                   submitted, tasks, completed, formatted_items, document>>

(* ============================== main =================================== *)
\* where main goes once the Drive set-up is over: the Calibre script still
\* has to open its database, the Zotero script made its client first
AfterDrive == IF backend = "calibre" THEN "connect" ELSE "fetch"

\* authenticate_google_drive, called when -s was given; it reports with
\* print() and returns None on any error
Authenticate ==
    /\ rpc = "auth"
    /\ IF ~service_account_file
       THEN /\ printed' = PrintProgress(printed, "progress", verbose, "stdout")
            /\ rpc' = AfterDrive
            /\ UNCHANGED <<drive_creds, auth>>
       ELSE \E loaded \in BOOLEAN :
            /\ drive_creds' = loaded
            /\ auth' = IF loaded THEN "ok" ELSE "failed"
            /\ LET begun == PrintProgress(printed, "progress", verbose,
                                          "stdout")
                   told == PrintTo(begun, "stdout", "auth")
               IN printed' = IF loaded THEN told
                             ELSE PrintProgress(told, "progress_err", verbose,
                                                "stderr")
            /\ rpc' = IF loaded THEN "test" ELSE AfterDrive
    /\ UNCHANGED <<dvars, xvars, margs, access, source, out_files, lookups,
                   resps, pdf_status, backend, records, attq, items,
                   submitted, tasks, completed, formatted_items, document,
                   written, exit_code>>

\* test_google_drive_access and main's report of it; google_creds is left
\* as it is whatever the test says
TestAccess ==
    /\ rpc = "test"
    /\ \E success \in BOOLEAN :
       /\ access' = IF success THEN "ok" ELSE "failed"
       /\ printed' =
              LET begun == PrintProgress(printed, "progress", verbose, "stdout")
              IN IF success THEN begun
                 ELSE PrintProgress(begun, "progress_err", verbose, "stderr")
    /\ rpc' = AfterDrive
    /\ UNCHANGED <<dvars, xvars, margs, drive_creds, auth, source, out_files,
                   lookups, resps, pdf_status, backend, records, attq, items,
                   submitted, tasks, completed, formatted_items, document,
                   written, exit_code>>

\* where connect_to_calibre_db can find metadata.db: in the library folder,
\* or else, with credentials, in the Drive
DbOutcomes ==
    {"local", "missing"} \cup
    (IF drive_creds THEN {"downloaded", "download_failed"} ELSE {})

\* connect_to_calibre_db: FileNotFoundError when the database is neither
\* local nor recovered from the Drive
ConnectCalibre ==
    /\ rpc = "connect" /\ backend = "calibre"
    /\ UNCHANGED <<dvars, xvars, margs, drive_creds, auth, access, backend,
                   records, attq>>
    /\ \E db \in DbOutcomes :
       IF db \in {"local", "downloaded"}
       THEN /\ rpc' = "fetch"
            /\ printed' = PrintProgress(printed, "progress", verbose, "stdout")
            /\ UNCHANGED <<source, items, submitted, tasks, completed,
                           formatted_items, document, written, exit_code,
                           out_files, lookups, resps, pdf_status>>
       ELSE /\ source' = "unreachable"
            /\ Abort

DefaultPdf == "default.pdf"

\* "if not output_file: output_file = <default name>" of the pdf branch
PdfTarget(dest) == IF dest = None THEN DefaultPdf ELSE dest

\* lines 872-883: the libraries are imported at the top of the script, so
\* the try block cannot raise ImportError and always settles on pdfkit
\* (the Calibre script uses pdfkit outright)
PdfGeneratorAvailable == TRUE
PdfGeneratorName == "pdfkit"

\* a handler that logs the failed conversion and returns
ConversionEndsReturning(converted) == "return"

\* generate_pdf_output's try/except: a conversion that raises, or that
\* reports errors, ends in sys.exit(1)
ConversionEnds(converted) == IF converted THEN "return" ELSE "exit"

\* display_items, pdf, after the render pass: generate_pdf_output, then
\* the summary line; SystemExit is no Exception, so main's handler lets
\* the exit through
EmitPdf ==
    /\ rpc = "emit" /\ output_format = "pdf"
    /\ rpc' = "exit"
    /\ \E converted \in BOOLEAN :
       LET target == PdfTarget(output_file)
           begun == PrintProgress(printed, "progress", verbose, "stdout")
       IN IF ~PdfGeneratorAvailable
          THEN /\ pdf_status' = "nolib"
               /\ printed' = PrintTo(begun, "stderr", "no_pdf_library")
               /\ exit_code' = 1
               /\ UNCHANGED <<written, out_files>>
          ELSE /\ pdf_status' = IF converted THEN "ok" ELSE "failed"
               /\ IF ConversionEnds(converted) = "exit"
                  THEN /\ printed' = PrintProgress(begun, "pdf_error",
                                                   verbose, "stderr")
                       /\ exit_code' = 1
                       /\ out_files' = IF PdfGeneratorName = "xhtml2pdf"
                                       THEN out_files \cup {target}
                                       ELSE out_files
                       /\ UNCHANGED written
                  ELSE /\ printed' = PrintTo(begun, "stdout", "saved")
                       /\ exit_code' = 0
                       /\ out_files' = out_files \cup {target}
                       /\ written' = TRUE
    /\ UNCHANGED <<dvars, xvars, margs, drive_creds, auth, access, source,
                   lookups, resps, backend, records, attq, items, submitted,
                   tasks, completed, formatted_items, document>>

(* --------------------------- specifications ---------------------------- *)
DriveIdle ==
    /\ index = << >>
    /\ google_creds = FALSE
    /\ filename = << >>
    /\ exact_match = TRUE
    /\ folder_name = None
    /\ return_all = FALSE
    /\ dpc = "idle"
    /\ max_results = 0
    /\ query = NoQuery
    /\ folder_id = None
    /\ results = << >>
    /\ page_token = NoToken
    /\ empties = 0
    /\ reqlog = << >>
    /\ found = << >>
    /\ err = NoErr
    /\ retval = RNone
    /\ outcome = "pending"

RunIdle ==
    /\ backend = "zotero"
    /\ records = << >>
    /\ attq = << >>
    /\ rpc = "idle"
    /\ items = << >>
    /\ submitted = 0
    /\ tasks = << >>
    /\ completed = 0
    /\ formatted_items = << >>
    /\ document = << >>
    /\ written = FALSE
    /\ exit_code = -1
    /\ verbose = FALSE
    /\ service_account_file = FALSE
    /\ output_format = "html"
    /\ output_file = "out"
    /\ drive_creds = FALSE
    /\ auth = "none"
    /\ access = "untested"
    /\ source = "unknown"
    /\ printed = {}
    /\ out_files = {}
    /\ lookups = 0
    /\ resps = [p \in 1..Len(records) |-> NoAnswers]
    /\ pdf_status = "none"

Init ==
    /\ DriveIdle
    /\ CallIdle
    /\ backend \in {"zotero", "calibre"}
    /\ records \in RecordLists
    /\ attq = [p \in 1..Len(records) |-> "none"]
    /\ rpc = "fetch"
    /\ items = << >>
    /\ submitted = 0
    /\ tasks = << >>
    /\ completed = 0
    /\ formatted_items = << >>
    /\ document = << >>
    /\ written = FALSE
    /\ exit_code = -1
    /\ verbose = FALSE
    /\ service_account_file = FALSE
    /\ output_format = "html"
    /\ output_file = "out"
    /\ drive_creds = FALSE
    /\ auth = "none"
    /\ access = "untested"
    /\ source = "unknown"
    /\ printed = {}
    /\ out_files = {}
    /\ lookups = 0
    /\ resps = [p \in 1..Len(records) |-> NoAnswers]
    /\ pdf_status = "none"

Next ==
    \/ FetchZotero
    \/ FetchCalibre
    \/ Display
    \/ Submit
    \/ TaskStart
    \/ TaskFinish
    \/ Collect
    \/ Emit

Spec == Init /\ [][Next]_vars

DriveInit ==
    /\ RunIdle
    /\ CallIdle
    /\ index \in Indexes
    /\ google_creds \in BOOLEAN
    /\ filename \in Names
    /\ exact_match \in BOOLEAN
    /\ folder_name \in FolderNames
    \* only a query scoped to an existing folder looks at a file's parent:
    \* for the other folder names every file is taken at the root
    /\ folder_name \notin {d.name : d \in Range(DriveFolders)} =>
           \A i \in DOMAIN index : index[i].parent = "root"
    /\ return_all \in BOOLEAN
    /\ dpc = "start"
    /\ max_results = 0
    /\ query = NoQuery
    /\ folder_id = None
    /\ results = << >>
    /\ page_token = NoToken
    /\ empties = 0
    /\ reqlog = << >>
    /\ found = << >>
    /\ err = NoErr
    /\ retval = RNone
    /\ outcome = "pending"

DriveNext ==
    \/ ResolveStart
    \/ FolderLookup
    \/ PageRequest
    \/ SharedRequest

SpecDrive == DriveInit /\ [][DriveNext]_vars

\* search_file_in_drive called on its own, for a file name that every
\* live file of the index carries
SearchIndexes ==
    { idx \in Indexes :
        \A i \in DOMAIN idx :
            idx[i].name = <<"a">> /\ ~idx[i].trashed /\ idx[i].hasLink }

SearchInit ==
    /\ RunIdle
    /\ CallIdle
    /\ index \in SearchIndexes
    /\ google_creds = TRUE
    /\ filename = <<"a">>
    /\ exact_match = TRUE
    /\ folder_name \in FolderNames
    /\ return_all = TRUE
    /\ max_results \in 1..MaxAsked
    /\ query = [op |-> "=", lit |-> Escape(filename), parent |-> None]
    /\ dpc = IF folder_name # None THEN "folder" ELSE "page"
    /\ folder_id = None
    /\ results = << >>
    /\ page_token = NoToken
    /\ empties = 0
    /\ reqlog = << >>
    /\ found = << >>
    /\ err = NoErr
    /\ retval = RNone
    /\ outcome = "pending"

SearchNext ==
    \/ FolderLookup
    \/ PageRequest
    \/ SharedRequest

\* the calling thread keeps running: a request that can be made is made
SpecSearch == SearchInit /\ [][SearchNext]_vars /\ WF_vars(SearchNext)

\* main, from its first line, with every combination of the arguments
MainInit ==
    /\ DriveIdle
    /\ CallIdle
    /\ backend \in {"zotero", "calibre"}
    /\ records \in MainRecordLists
    /\ attq = [p \in 1..Len(records) |-> "none"]
    /\ rpc = "auth"
    /\ items = << >>
    /\ submitted = 0
    /\ tasks = << >>
    /\ completed = 0
    /\ formatted_items = << >>
    /\ document = << >>
    /\ written = FALSE
    /\ exit_code = -1
    /\ verbose \in BOOLEAN
    /\ service_account_file \in BOOLEAN
    /\ output_format \in {"text", "html", "pdf"}
    /\ output_file \in {None, "out"}
    /\ drive_creds = FALSE
    /\ auth = "none"
    /\ access = "untested"
    /\ source = "unknown"
    /\ printed = {}
    /\ out_files = {}
    /\ lookups = 0
    /\ resps = [p \in 1..Len(records) |-> NoAnswers]
    /\ pdf_status = "none"

MainNext ==
    \/ Authenticate
    \/ TestAccess
    \/ ConnectCalibre
    \/ FetchZotero
    \/ FetchCalibre
    \/ Display
    \/ Submit
    \/ TaskStart
    \/ TaskFinish
    \/ Collect
    \/ Emit
    \/ EmitPdf

SpecMain == MainInit /\ [][MainNext]_vars

LocateInit ==
    /\ DriveIdle
    /\ RunIdle
    /\ call \in [fn : {"get_attachment_paths"}, children : ChildLists,
                 creds : BOOLEAN, resp : Responses]
    /\ ret = NoRet

\* one call of get_attachment_paths; the child query succeeds or fails
LocateCall ==
    /\ call.fn = "get_attachment_paths" /\ ret = NoRet
    /\ \E queryOk \in BOOLEAN :
           ret' = [fn |-> "get_attachment_paths", queryOk |-> queryOk,
                   atts |-> GetAttachmentPaths(call.children, queryOk,
                                               call.creds, call.resp)]
    /\ UNCHANGED <<dvars, rvars, mvars, call>>

LocateNext == LocateCall

SpecLocate == LocateInit /\ [][LocateNext]_vars

PathInit ==
    /\ DriveIdle
    /\ RunIdle
    /\ call \in [fn : {"calibre_path"}, library : Libraries,
                 name : StoredNames, format : Formats]
    /\ ret = NoRet

\* the body of the locator's loop for one format row
PathCall ==
    /\ call.fn = "calibre_path" /\ ret = NoRet
    /\ ret' = [fn |-> "calibre_path",
               info |-> CalibrePath(call.library, call.name, call.format)]
    /\ UNCHANGED <<dvars, rvars, mvars, call>>

PathNext == PathCall

SpecPath == PathInit /\ [][PathNext]_vars

ItemsInit ==
    /\ DriveIdle
    /\ RunIdle
    /\ call \in [fn : {"get_items"}, library : Libraries0,
                 collection : {None, "c1"},
                 item_type : {None, "book", "journalArticle"}]
    /\ ret = NoRet

\* one call of get_items
ItemsCall ==
    /\ call.fn = "get_items" /\ ret = NoRet
    /\ ret' = [fn |-> "get_items",
               items |-> GetItems(call.library, call.collection,
                                  call.item_type)]
    /\ UNCHANGED <<dvars, rvars, mvars, call>>

ItemsNext == ItemsCall

SpecItems == ItemsInit /\ [][ItemsNext]_vars

TagsInit ==
    /\ DriveIdle
    /\ RunIdle
    /\ call \in [fn : {"filter_books"}, books : BookLists, tag : TagArgLists]
    /\ ret = NoRet

\* the tag filter of one run
TagsCall ==
    /\ call.fn = "filter_books" /\ ret = NoRet
    /\ ret' = [fn |-> "filter_books",
               books |-> FilterBooks(call.books, call.tag)]
    /\ UNCHANGED <<dvars, rvars, mvars, call>>

TagsNext == TagsCall

SpecTags == TagsInit /\ [][TagsNext]_vars

HtmlInit ==
    /\ DriveIdle
    /\ RunIdle
    /\ \/ call \in [fn : {"format_item_html"},
                     item : [itemType : { <<"b">>, <<"x">> },
                             title : Texts,
                             creators : CreatorLists,
                             date : {<< >>} \cup ShortTexts,
                             publisher : {<< >>} \cup ShortTexts],
                     attachments : AttachmentLists]
       \/ call \in [fn : {"format_book_html"},
                     item : [title : Texts,
                             authors : AuthorLists,
                             pubdate : {<< >>} \cup ShortTexts,
                             publisher : {<< >>} \cup ShortTexts],
                     attachments : AttachmentLists]
    /\ ret = NoRet

\* one call of the Zotero formatter
HtmlItemCall ==
    /\ call.fn = "format_item_html" /\ ret = NoRet
    /\ ret' = [fn |-> "format_item_html",
               html |-> FormatItemHtml(call.item, call.attachments)]
    /\ UNCHANGED <<dvars, rvars, mvars, call>>

\* one call of the Calibre formatter
HtmlBookCall ==
    /\ call.fn = "format_book_html" /\ ret = NoRet
    /\ ret' = [fn |-> "format_book_html",
               html |-> FormatBookHtml(call.item, call.attachments)]
    /\ UNCHANGED <<dvars, rvars, mvars, call>>

HtmlNext == HtmlItemCall \/ HtmlBookCall

SpecHtml == HtmlInit /\ [][HtmlNext]_vars

(* ======================= properties of SpecDrive ======================= *)
Finished == dpc = "done"
CleanCall == Finished /\ google_creds /\ err = NoErr

\* non-trashed files of the index whose name equals the file name asked for
EqualNamed == {i \in 1..Len(index) : ~index[i].trashed /\ index[i].name = filename}

\* C4: get_drive_url_by_filename never propagates an error: whenever the
\* client construction, the folder lookup, a page request or the
\* shared-with-me request fails, the call returns None.
C4_NeverPropagates ==
    /\ outcome # "raised"
    /\ err # NoErr => (Finished /\ outcome = "returned" /\ retval = RNone)

C4_Witness ==
    /\ Finished
    /\ err = "HttpError"
    /\ reqlog # << >>
    /\ reqlog[Len(reqlog)] = "shared"

NoDuplicates(s) == \A i, j \in 1..Len(s) : s[i] = s[j] => i = j

\* C6: the list returned by search_file_in_drive never holds two entries
\* with the same file id.
C6_Deduplicated == Finished => NoDuplicates(found)

C8_TwoPhase ==
    \A i, j \in 1..Len(reqlog) :
        (reqlog[i] = "shared" /\ reqlog[j] = "page") => j < i

\* C9: a folder-scoped search issues no shared-with-me request and returns
\* only entries of the scoped name query.
C9_ScopedNoShared ==
    folder_id # None =>
        /\ "shared" \notin Range(reqlog)
        /\ Range(results) \subseteq Range(PrimaryMatches)
        /\ Range(found) \subseteq Range(PrimaryMatches)

C9_Witness ==
    /\ CleanCall
    /\ folder_id # None
    /\ Len(found) < max_results
    /\ \E i \in Range(SharedMatches) : i \notin Range(PrimaryMatches)

(* ========================= properties of Spec ========================== *)
\* the render pass has returned its fragment list
Rendered == rpc = "emit" \/ written

\* C1: whatever the completion order, the fragment list returned by the
\* render pass has the fragment of record i at position i.
C1_OrderPreserved ==
    Rendered =>
        /\ Len(document) = Len(items)
        /\ \A p \in 1..Len(document) :
               /\ document[p].num = p
               /\ document[p].kind = "item" => document[p].body = items[p]

C1_Witness ==
    /\ Rendered
    /\ Len(items) >= 3
    /\ \E j, k \in 1..Len(formatted_items) :
           j < k /\ formatted_items[j][1] > formatted_items[k][1]
    /\ \E p, q \in 1..Len(items) : items[p] # items[q]

\* C2: a record whose formatting raises yields an error-marked fragment at
\* its own position, every other record a normal fragment, the list still
\* has one fragment per record, and the run ends with status 0.
C2_ErrorIsolated ==
    Rendered =>
        /\ Len(document) = Len(items)
        /\ \A p \in 1..Len(items) :
               IF Raises(items[p])
               THEN document[p].kind = "error"
               ELSE document[p].kind = "item" /\ document[p].body = items[p]
        /\ \A p \in DOMAIN tasks : ~tasks[p].fut.raised
        /\ rpc = "exit" => exit_code = 0

C2_Witness ==
    /\ rpc = "exit" /\ written
    /\ Len(items) = 3
    /\ {p \in 1..3 : Raises(items[p])} = {2}
    /\ document[2].kind = "error"
    /\ document[1].kind = "item" /\ document[3].kind = "item"

\* C3: the fragment list is assembled, and the output written, only after
\* every submitted task has completed and been collected.
C3_FullBarrier ==
    (Rendered \/ document # << >>) =>
        /\ submitted = Len(items)
        /\ \A p \in DOMAIN tasks : tasks[p].st = "collected"
        /\ Len(formatted_items) = Len(items)
        /\ Len(document) = Len(items)

C3_Witness ==
    /\ rpc = "emit"
    /\ Len(items) >= 2
    /\ completed = Len(items)

\* C10: when the query for a record's attachments fails, that record gets
\* an empty attachment list, the run does not abort, and every record is
\* still rendered.
C10_AttachmentQueryFailureTolerated ==
    \A p \in 1..Len(records) :
        attq[p] = "failed" =>
            /\ exit_code # 1
            /\ rpc = "exit" =>
                   /\ written
                   /\ Len(document) = Len(records)
                   /\ document[p] = ItemFragment(p - 1, records[p], << >>)

(* ====================== properties of SpecLocate ======================= *)
Located == ret.fn = "get_attachment_paths" /\ ret.queryOk

\* positions of the children that are attachments of an allowed content
\* type with a key and a filename
Supported ==
    {k \in 1..Len(call.children) :
        LET c == call.children[k]
        IN /\ c.itemType = "attachment"
           /\ c.contentType \in AllowList
           /\ c.hasKey
           /\ c.filename \in FileNames}

\* C11: the list returned for a Zotero record holds exactly the children
\* that are attachments of an allowed content type with key and filename,
\* in child order, each with the path storage/<key>/<filename>.
C11_AllowListOnly ==
    Located =>
        /\ Len(ret.atts) = Cardinality(Supported)
        /\ \A j \in 1..Len(ret.atts) :
               \E k \in Supported :
                   /\ ret.atts[j].local_path =
                          <<"storage", k, call.children[k].filename>>
                   /\ Cardinality({m \in Supported : m < k}) = j - 1

C11_Witness ==
    /\ Located
    /\ Len(call.children) = 2
    /\ call.children[1].contentType = "text/html"
    /\ call.children[1].itemType = "attachment"
    /\ call.children[1].hasKey /\ call.children[1].filename = "f1"
    /\ Len(ret.atts) = 1
    /\ ret.atts[1].local_path = <<"storage", 2, "f2">>

LocalPaths(atts) == [j \in 1..Len(atts) |-> atts[j].local_path]

\* C13: a miss or failure of the cloud lookup for a file name leaves the
\* attachment in the list with its local path and no link; number, order
\* and local paths are those of the call without credentials.
C13_LookupMissOnlyDropsLink ==
    (Located /\ call.creds) =>
        /\ LocalPaths(ret.atts) =
               LocalPaths(GetAttachmentPaths(call.children, TRUE, FALSE, call.resp))
        /\ \A j \in 1..Len(ret.atts) :
               LET f == ret.atts[j].local_path[3]
               IN IF call.resp[f] = "hit"
                  THEN ret.atts[j].drive_url = DriveUrl(f)
                  ELSE ret.atts[j].drive_url = None

C13_Witness ==
    /\ Located /\ call.creds
    /\ Len(ret.atts) = 2
    /\ call.resp["f1"] = "error" /\ call.resp["f2"] = "hit"
    /\ ret.atts[1].local_path[3] = "f1" /\ ret.atts[1].drive_url = None
    /\ ret.atts[2].drive_url = "u2"

(* ======================= properties of SpecPath ======================== *)
Derived == ret.fn = "calibre_path"
LastOf(path) == path[Len(path)]
Suffix == <<Dot>> \o Lower(call.format)

\* C12 as stated: the derived path ends with "." and the lower-cased
\* format, compared as written, and does not end with the suffix twice.
C12_SuffixExactlyOnce ==
    Derived =>
        /\ EndsWith(LastOf(ret.info.local_path), Suffix)
        /\ ~EndsWith(LastOf(ret.info.local_path), Suffix \o Suffix)

\* C12 amended: the derived path ends with the suffix when letter case is
\* ignored; a name without a dot gets the suffix once; a name that already
\* ends with the suffix in any letter case is kept as it is; deriving
\* again from the derived file name returns that file name.
C12_SuffixCaseInsensitiveOnce ==
    Derived =>
        LET last == LastOf(ret.info.local_path)
        IN /\ EndsWith(Lower(last), Suffix)
           /\ ~Contains(call.name, <<Dot>>) => last = call.name \o Suffix
           /\ EndsWith(Lower(call.name), Suffix) => last = call.name
           /\ LastOf(CalibrePath(call.library, last, call.format).local_path)
                  = last

C12_Witness ==
    /\ Derived
    /\ call.name = <<"b", Dot, "E">> /\ call.format = <<"E">>
    /\ LastOf(ret.info.local_path) = <<"b", Dot, "E">>
    /\ Len(ret.info.local_path) = 3

(* ======================= properties of SpecMain ======================== *)
Said(stream, kind) == [stream |-> stream, kind |-> kind] \in printed
ConversionFailed == pdf_status \in {"failed", "nolib"}

C15_NoDestinationNoFile ==
    /\ output_file = None =>
           /\ out_files = {}
           /\ written => Said("stdout", "document")
    /\ out_files # {} => output_file # None

\* C15 amended: text and html without a destination go to standard output
\* and create no file; with a destination only that file is opened and the
\* document is not printed; pdf without a destination goes to the default
\* PDF file and is not printed.
C15_DestinationByFormat ==
    /\ (output_format # "pdf" /\ output_file = None) =>
           /\ out_files = {}
           /\ written => Said("stdout", "document")
    /\ output_file # None =>
           /\ out_files \subseteq {output_file}
           /\ written => out_files = {output_file}
           /\ ~Said("stdout", "document")
    /\ (output_format = "pdf" /\ output_file = None) =>
           /\ out_files \subseteq {DefaultPdf}
           /\ written => out_files = {DefaultPdf}
           /\ ~Said("stdout", "document")

C15_Witness ==
    /\ rpc = "exit" /\ written
    /\ output_format = "pdf" /\ output_file = None
    /\ out_files = {DefaultPdf}
    /\ Said("stdout", "saved")

FatalKinds == {"fatal", "pdf_error", "no_pdf_library"}

\* C16: a run that ends on a fatal error exits with status 1 and has
\* printed a message on the error stream, verbose or not; every other
\* completed run exits with status 0.
C16_FatalExitPrintsError ==
    rpc = "exit" =>
        IF source = "unreachable" \/ ConversionFailed
        THEN /\ exit_code = 1
             /\ \E k \in FatalKinds : Said("stderr", k)
        ELSE exit_code = 0

\* C17: a failure to load the credentials or of the Drive access test does
\* not abort the run, and the run goes on with the cloud lookups disabled.
C17_AuthFailureDisablesLinks ==
    (auth = "failed" \/ access = "failed") =>
        /\ exit_code = 1 => (source = "unreachable" \/ ConversionFailed)
        /\ lookups = 0
        /\ \A p \in DOMAIN tasks :
               (/\ tasks[p].st \in {"done", "collected"}
                /\ tasks[p].fut.value.kind = "item") =>
                   \A j \in DOMAIN tasks[p].fut.value.atts :
                       tasks[p].fut.value.atts[j].drive_url = None

\* C18: when the source cannot be reached the run aborts before
\* rendering: no task is submitted, no output is opened or written, and
\* the exit status is 1.
C18_SourceFailureAbortsBeforeRender ==
    source = "unreachable" =>
        /\ rpc = "exit"
        /\ exit_code = 1
        /\ submitted = 0
        /\ \A p \in DOMAIN tasks : tasks[p].st = "unsubmitted"
        /\ document = << >>
        /\ out_files = {}
        /\ ~written

C18_Witness ==
    /\ source = "unreachable"
    /\ backend = "calibre"
    /\ records # << >>
    /\ \A p \in DOMAIN attq : attq[p] = "none"
    /\ output_file # None
    /\ exit_code = 1

QuietKinds == {"saved", "no_items"} \cup FatalKinds

\* C19: a non-verbose run with an output file prints nothing but the
\* final summary line and the message of a fatal error.
C19_QuietRunPrintsOnlySummary ==
    (~verbose /\ output_file # None) =>
        \A m \in printed : m.kind \in QuietKinds

\* C20: the rendered document is the one the same records and the same
\* collaborator answers give with the verbosity switched the other way.
C20_VerboseObservational ==
    Rendered =>
        /\ Len(document) = Len(items)
        /\ \A p \in 1..Len(items) :
               document[p] =
                   FormatSingleItem(p - 1, items[p],
                       Locate(items[p], attq[p] # "failed", drive_creds,
                              resps[p], ~verbose)).value

C20_Witness ==
    /\ Rendered
    /\ verbose /\ drive_creds
    /\ Len(document) = 1
    /\ document[1].kind = "item"
    /\ Len(document[1].atts) = 1
    /\ document[1].atts[1].drive_url = "u1"
    /\ Said("stdout", "progress")

(* ======================= properties of SpecItems ======================= *)
\* C21: when an item type is given, every record returned by get_items has
\* that item type, with or without a collection.
C21_ItemTypeFilter ==
    (ret.fn = "get_items" /\ call.item_type # None) =>
        \A i \in DOMAIN ret.items : ret.items[i].itemType = call.item_type

(* ======================= properties of SpecSearch ====================== *)
PagesAsked == Cardinality({i \in DOMAIN reqlog : reqlog[i] = "page"})

\* the loop goes round again only when a next-page token was returned and
\* fewer than max_results entries are held; what is returned is cut to
\* max_results
StopsAtFirst ==
    /\ (dpc = "page" /\ PagesAsked >= 1) =>
           page_token # NoToken /\ Len(results) < max_results
    /\ CleanCall =>
           /\ page_token = NoToken \/ Len(results) >= max_results
           /\ Len(found) <= max_results
           /\ found = Take(results, max_results)

\* C22: on a finite index the paging loop terminates, it stops at the
\* first iteration that leaves no next-page token or has reached
\* max_results entries, and it returns at most max_results entries.
C22_PagingTerminates == [] StopsAtFirst /\ <>(dpc = "done")

C22_Witness ==
    /\ CleanCall
    /\ PagesAsked >= 2
    /\ page_token # NoToken
    /\ Len(found) = max_results

\* the id of the folder that carries the name, if there is one
FolderIds == {d.id : d \in {f \in Range(DriveFolders) : f.name = folder_name}}

\* C28: a search called with a folder name returns only children of a
\* folder of that name, and nothing when no such folder exists.
C28_FolderScoped ==
    (CleanCall /\ folder_name # None) =>
        \A j \in DOMAIN found : index[found[j]].parent \in FolderIds

(* ================== properties of the render pass (Spec) ================ *)
\* how far a task has come: submitted, taken by a worker, returned, seen by
\* the as_completed loop
Rank(st) ==
    CASE st = "unsubmitted" -> 0
      [] st = "pending" -> 1
      [] st = "running" -> 2
      [] st = "done" -> 3
      [] st = "collected" -> 4

\* a task only moves forward, one stage at a time, and its result is
\* written once
Forward ==
    \A p \in DOMAIN tasks :
        /\ p \in DOMAIN tasks'
        /\ Rank(tasks'[p].st) - Rank(tasks[p].st) \in {0, 1}
        /\ tasks[p].st \in {"done", "collected"} =>
               tasks'[p].fut = tasks[p].fut

\* every record has its task once the submit loop is over, and every task
\* has run to its end once the pass has returned
NoneSkipped ==
    /\ rpc \in {"collect", "emit"} =>
           /\ submitted = Len(items)
           /\ Len(tasks) = Len(items)
           /\ \A p \in DOMAIN tasks : tasks[p].st # "unsubmitted"
    /\ Rendered =>
           /\ Len(tasks) = Len(items)
           /\ \A p \in DOMAIN tasks : tasks[p].st = "collected"

\* C23: in one render pass each record's formatter is invoked exactly once:
\* one task is submitted per record, a task never goes back to the queue or
\* runs again after it has returned (failed or not), and no record is
\* skipped.
C23_OncePerRecord == [][Forward]_vars /\ []NoneSkipped

C23_Witness ==
    /\ rpc = "exit" /\ written
    /\ Len(items) = 3
    /\ Raises(items[1]) /\ ~Raises(items[2])
    /\ \A p \in DOMAIN tasks : tasks[p].st = "collected"
    /\ document[1].kind = "error"

\* a step of a worker thread: a task is taken from the queue or returns
WorkerStep ==
    \E p \in DOMAIN tasks :
        /\ p \in DOMAIN tasks'
        /\ tasks'[p].st # tasks[p].st
        /\ tasks'[p].st \in {"running", "done"}

\* the futures a step has written
Written == {p \in DOMAIN tasks : p \notin DOMAIN tasks' \/ tasks'[p] # tasks[p]}

\* a worker writes its own future and nothing else of the pass; the pair
\* list only grows by one pair at the end, in a round of the as_completed
\* loop
SingleWriter ==
    /\ WorkerStep =>
           /\ Cardinality(Written) = 1
           /\ UNCHANGED <<items, records, backend, drive_creds,
                          formatted_items, completed, submitted, document,
                          rpc, written, exit_code>>
    /\ formatted_items' # formatted_items =>
           /\ ~WorkerStep
           /\ rpc = "collect"
           /\ Len(formatted_items') = Len(formatted_items) + 1
           /\ SubSeq(formatted_items', 1, Len(formatted_items)) =
                  formatted_items

SubstringCI(c, t) ==
    \E i \in 0..Len(t) :
        /\ i + Len(c) <= Len(t)
        /\ \A k \in 1..Len(c) : LowerChar(t[i + k]) = LowerChar(c[k])

\* the -t arguments without surrounding blanks, blank ones left out
Cleaned ==
    LET Core(a) == { Strip(a) } \ { << >> }
    IN UNION { Core(call.tag[j]) : j \in 1..Len(call.tag) }

\* the positions of the books the claim keeps
Wanted ==
    { p \in 1..Len(call.books) :
        \E c \in Cleaned, t \in Range(call.books[p].tags) :
            SubstringCI(c, t) \/ SubstringCI(t, c) }

\* s is the subsequence of full at the positions in keep
IsSubsequenceAt(s, full, keep) ==
    /\ Len(s) = Cardinality(keep)
    /\ \A j \in 1..Len(s) :
           \E p \in keep :
               /\ s[j] = full[p]
               /\ Cardinality({q \in keep : q < p}) = j - 1

\* C25: with a non-empty cleaned --tag list the books kept are exactly
\* those with a category c and a tag t such that, ignoring case, c occurs
\* in t or t occurs in c; the kept books are in fetch order, and a book
\* without tags is dropped.
C25_TagFilter ==
    (ret.fn = "filter_books" /\ Cleaned # {}) =>
        IsSubsequenceAt(ret.books, call.books, Wanted)

C25_Witness ==
    /\ ret.fn = "filter_books" /\ Cleaned # {}
    /\ Len(call.books) = 2 /\ Len(ret.books) = 1
    /\ call.books[1].tags = << >>
    /\ ret.books[1] = call.books[2]
    /\ \E c \in Cleaned, t \in Range(call.books[2].tags) :
           SubstringCI(t, c) /\ ~SubstringCI(c, t)

(* ================ further properties of SpecMain ======================= *)
\* the fragments of the rendered document that carry a Drive link
Linked ==
    {p \in DOMAIN document :
        /\ document[p].kind = "item"
        /\ \E j \in DOMAIN document[p].atts :
               document[p].atts[j].drive_url # None}

\* C26: when the credentials load but the Drive access test fails, the run
\* goes on, the cloud resolver is never called for an attachment and no
\* fragment of the document carries a Drive link.
C26_FailedTestNoLookups ==
    (auth = "ok" /\ access = "failed") =>
        /\ lookups = 0
        /\ Linked = {}
        /\ source = "ok" => rpc # "exit" \/ exit_code = 0 \/ ConversionFailed

(* ===================== properties of SpecHtml ========================== *)
\* the author names of the record as they are shown, before any escaping
ShownAuthors ==
    IF call.fn = "format_book_html" THEN call.item.authors
    ELSE [j \in 1..Len(call.item.creators) |->
             LET c == call.item.creators[j]
             IN IF "lastName" \in DOMAIN c
                THEN c.lastName \o <<",", " ">> \o c.firstName
                ELSE c.name]

\* C27: every text of the record that an HTML formatter puts into the
\* fragment (title, item type, each author name, date, type-specific
\* field, attachment path and link) is the escaped form of the record's
\* text: escaped, and escaped once.
C27_EscapedOnce ==
    ret.fn \in {"format_item_html", "format_book_html"} =>
        /\ ret.html.title = HtmlEscape(call.item.title)
        /\ ret.fn = "format_item_html" =>
               ret.html.itemType = HtmlEscape(call.item.itemType)
        /\ ret.html.authors =
               Join([j \in 1..Len(ShownAuthors) |->
                        HtmlEscape(ShownAuthors[j])], <<";", " ">>)
        /\ ret.html.date =
               HtmlEscape(IF ret.fn = "format_book_html"
                          THEN call.item.pubdate ELSE call.item.date)
        /\ ret.html.publisher \in {<< >>, HtmlEscape(call.item.publisher)}
        /\ \A j \in DOMAIN ret.html.attachments :
               /\ ret.html.attachments[j].local_path =
                      HtmlEscape(call.attachments[j].local_path)
               /\ ret.html.attachments[j].drive_url =
                      HtmlEscape(call.attachments[j].drive_url)

(* ================ further properties of SpecPath ======================= *)
\* C29: for every format row the file name handed to the cloud resolver is
\* the last component of the local path that is emitted for the row.
C29_LookupNameIsPathName ==
    Derived => ret.info.filename = LastOf(ret.info.local_path)

(* ============== further properties of the render pass ================== *)
\* the sequence numbers shown by the labels of the document, in order
Labels == [p \in DOMAIN document |-> document[p].num]

\* C30: after any completion order the fragment at output position i,
\* normal or error, shows sequence number i+1 in its label (positions
\* counted from 0), and no two fragments show the same number.
C30_LabelsFollowPositions ==
    Rendered =>
        /\ \A p \in DOMAIN document :
               /\ document[p].kind \in {"item", "error"}
               /\ Labels[p] = (p - 1) + 1
        /\ NoDuplicates(Labels)

C30_Witness ==
    /\ Rendered
    /\ Len(document) = 3
    /\ document[3].kind = "error" /\ document[1].kind = "item"
    /\ formatted_items[1][1] = 2
    /\ Labels = <<1, 2, 3>>

====
